---------------------------- MODULE Spec2Model ----------------------------
(***************************************************************************)
(* ArtLens frontend, src/frontend/src/js/embedding.js: the MobileNet       *)
(* embedding model's life cycle (initEmbeddingModel, ensureRuntimeDim),    *)
(* the crop rectangle (cropToCanvasFromVideo), the L2 normalisation at the *)
(* end of embedFromCanvas and the similarity score (cosineSim).            *)
(*                                                                         *)
(* Numbers.  The JavaScript code computes in IEEE floating point.  The     *)
(* model computes exactly: a score is a rational number (Rat), an          *)
(* embedding element is a signed square root of a rational (Num), which is *)
(* closed under the products and the 1/sqrt the normaliser takes.  What    *)
(* the model says about a value therefore holds of the code up to the      *)
(* rounding of the float operations, which the model does not describe.    *)
(***************************************************************************)
EXTENDS Integers, Sequences, FiniteSets

(***************************************************************************)
(* Bounds of the model.                                                    *)
(***************************************************************************)
MaxLen == 2
MaxDim == 3
MaxVideo == 2
MaxCalls == 2

(* constants.js:8 *)
CROP_SIZE == 224

(***************************************************************************)
(* Exact rational arithmetic: num/den with den > 0, in lowest terms.       *)
(***************************************************************************)
Abs(n) == IF n < 0 THEN -n ELSE n

Sign(n) == IF n < 0 THEN -1 ELSE IF n = 0 THEN 0 ELSE 1

RECURSIVE GCD(_, _)
GCD(a, b) == IF b = 0 THEN a ELSE GCD(b, a % b)

R(n, d) ==
    LET g == GCD(Abs(n), Abs(d))
        s == Sign(d)
    IN  [num |-> (s * n) \div g, den |-> (s * d) \div g]

RatZero == R(0, 1)
RatOne == R(1, 1)
RatMinusOne == R(-1, 1)

RatAdd(x, y) == R(x.num * y.den + y.num * x.den, x.den * y.den)
RatMul(x, y) == R(x.num * y.num, x.den * y.den)
RatLeq(x, y) == x.num * y.den <= y.num * x.den

(***************************************************************************)
(* An embedding element (a JavaScript number of the Float32Array): the     *)
(* finite value sgn * sqrt(sq) with sq a Rat, or Infinity, or NaN.         *)
(***************************************************************************)
Fin(s, q) == [kind |-> "fin", sgn |-> s, sq |-> q]
Infinity(s) == [kind |-> "inf", sgn |-> s, sq |-> RatZero]
NaN == [kind |-> "nan", sgn |-> 0, sq |-> RatZero]

(* The rational n/d as an element. *)
Q(n, d) == Fin(Sign(n) * Sign(d), R(n * n, d * d))
(* The square root of the positive rational n/d as an element. *)
Sqrt(n, d) == Fin(1, R(n, d))

NumZero == Q(0, 1)
NumOne == Q(1, 1)

(* x * y in JavaScript: 0 * Infinity is NaN. *)
NumMul(x, y) ==
    IF x.kind = "nan" \/ y.kind = "nan" THEN NaN
    ELSE IF x.kind = "inf" \/ y.kind = "inf"
         THEN IF x.sgn = 0 \/ y.sgn = 0 THEN NaN ELSE Infinity(x.sgn * y.sgn)
         ELSE Fin(x.sgn * y.sgn, RatMul(x.sq, y.sq))

(* x * x of a finite element, a rational. *)
NumSquare(x) == x.sq

(* 1 / Math.sqrt(s) of a rational s >= 0: 1 / Math.sqrt(0) is Infinity. *)
RecipSqrt(s) ==
    IF s.num = 0 THEN Infinity(1) ELSE Fin(1, R(s.den, s.num))

(***************************************************************************)
(* null, a loaded model object, a recorded dimension.                      *)
(***************************************************************************)
NullModel == [isNull |-> TRUE, id |-> 0]
Model(c) == [isNull |-> FALSE, id |-> c]
NullDim == [isNull |-> TRUE, size |-> 0]
Dim(d) == [isNull |-> FALSE, size |-> d]

(***************************************************************************)
(* A vector argument of cosineSim: null/undefined (nil), or an array.      *)
(***************************************************************************)
NullVec == [nil |-> TRUE, data |-> << >>]
Arr(s) == [nil |-> FALSE, data |-> s]

(* What a call hands back to its caller: a returned value or an exception. *)
NotCalled == [called |-> FALSE, threw |-> FALSE, error |-> "", value |-> RatZero]
Returned(v) == [called |-> TRUE, threw |-> FALSE, error |-> "", value |-> v]
Thrown(e) == [called |-> TRUE, threw |-> TRUE, error |-> e, value |-> RatZero]

(***************************************************************************)
(* State.                                                                  *)
(*   tfGlobal, mobilenetGlobal  globalThis.tf / globalThis.mobilenet are   *)
(*                              defined (their scripts have run)           *)
(*   embedModel, runtimeDim     the module's two variables, lines 4-5      *)
(*   pc, mobLocal               each initEmbeddingModel invocation: the    *)
(*                              await it is suspended at, and its local    *)
(*                              mobilenetGlobal (line 14)                  *)
(*   lastStep                   the operation that took the last step and  *)
(*                              what its caller saw                        *)
(*   videoWidth, videoHeight    videoEl's frame size                       *)
(*   box, drawn                 cropToCanvasFromVideo's argument and the   *)
(*                              arguments of its drawImage call            *)
(*   feat, out, sum, inv, embRes  embedFromCanvas: the features inferred,  *)
(*                              the array returned, its locals, its result *)
(*   vecA, vecB, resAB, resBA   cosineSim's arguments and results          *)
(***************************************************************************)
VARIABLES tfGlobal, mobilenetGlobal, embedModel, runtimeDim, pc, mobLocal,
          lastStep,
          videoWidth, videoHeight, box, drawn,
          feat, out, sum, inv, embRes,
          vecA, vecB, resAB, resBA

modelVars == <<tfGlobal, mobilenetGlobal, embedModel, runtimeDim, pc, mobLocal, lastStep>>
cropVars == <<videoWidth, videoHeight, box, drawn>>
embedVars == <<feat, out, sum, inv, embRes>>
cosVars == <<vecA, vecB, resAB, resBA>>
vars == <<modelVars, cropVars, embedVars, cosVars>>

Calls == 1..MaxCalls

(***************************************************************************)
(* The state when the module has been evaluated (lines 1-10) and nothing   *)
(* has been called.                                                        *)
(***************************************************************************)
NoStep == [op |-> "none", threw |-> FALSE, error |-> "", probe |-> "none"]
Step(o) == [op |-> o, threw |-> FALSE, error |-> "", probe |-> "none"]
StepThrew(o, e) == [op |-> o, threw |-> TRUE, error |-> e, probe |-> "none"]
StepProbe(o, p) == [op |-> o, threw |-> FALSE, error |-> "", probe |-> p]

NoBox == [originX |-> 0, originY |-> 0, width |-> 0, height |-> 0]
NoDraw == [called |-> FALSE, sx |-> 0, sy |-> 0, sw |-> 0, sh |-> 0,
           dx |-> 0, dy |-> 0, dw |-> 0, dh |-> 0]

ModelStart ==
    /\ tfGlobal = FALSE
    /\ mobilenetGlobal = FALSE
    /\ embedModel = NullModel
    /\ runtimeDim = NullDim
    /\ pc = [c \in Calls |-> "idle"]
    /\ mobLocal = [c \in Calls |-> FALSE]
    /\ lastStep = NoStep

CropStart ==
    /\ videoWidth = 0
    /\ videoHeight = 0
    /\ box = NoBox
    /\ drawn = NoDraw

EmbedStart ==
    /\ feat = << >>
    /\ out = << >>
    /\ sum = RatZero
    /\ inv = NumOne
    /\ embRes = NotCalled

CosStart ==
    /\ vecA = NullVec
    /\ vecB = NullVec
    /\ resAB = NotCalled
    /\ resBA = NotCalled

(***************************************************************************)
(* The embedding model's life cycle.                                       *)
(***************************************************************************)
(* The feature sizes a MobileNet embedding can have. *)
Dims == {1024, 1280}

(* The page's script tags define globalThis.tf and globalThis.mobilenet. *)
TfScriptLoaded ==
    /\ ~tfGlobal
    /\ tfGlobal' = TRUE
    /\ lastStep' = Step("tfScript")
    /\ UNCHANGED <<mobilenetGlobal, embedModel, runtimeDim, pc, mobLocal>>
    /\ UNCHANGED <<cropVars, embedVars, cosVars>>

MobilenetScriptLoaded ==
    /\ ~mobilenetGlobal
    /\ mobilenetGlobal' = TRUE
    /\ lastStep' = Step("mobilenetScript")
    /\ UNCHANGED <<tfGlobal, embedModel, runtimeDim, pc, mobLocal>>
    /\ UNCHANGED <<cropVars, embedVars, cosVars>>

(* initEmbeddingModel, lines 13-16: up to the await of tf.setBackend. *)
InitEnter(c) ==
    /\ pc[c] = "idle"
    /\ IF ~tfGlobal
       THEN /\ lastStep' = StepThrew("initEmbeddingModel", "TensorFlow.js non caricato")
            /\ UNCHANGED <<pc, mobLocal>>
       ELSE /\ pc' = [pc EXCEPT ![c] = "setBackend"]
            /\ mobLocal' = [mobLocal EXCEPT ![c] = mobilenetGlobal]
            /\ lastStep' = Step("initEmbeddingModel")
    /\ UNCHANGED <<tfGlobal, mobilenetGlobal, embedModel, runtimeDim>>
    /\ UNCHANGED <<cropVars, embedVars, cosVars>>

(* Line 16: tf.setBackend settles; a rejection is swallowed.  Line 17. *)
InitBackendSettled(c) ==
    /\ pc[c] = "setBackend"
    /\ pc' = [pc EXCEPT ![c] = "ready"]
    /\ lastStep' = Step("initEmbeddingModel")
    /\ UNCHANGED <<tfGlobal, mobilenetGlobal, embedModel, runtimeDim, mobLocal>>
    /\ UNCHANGED <<cropVars, embedVars, cosVars>>

(* Lines 17-19: tf.ready settles; the MobileNet check; the load starts. *)
InitReadySettled(c, ok) ==
    /\ pc[c] = "ready"
    /\ IF ~ok
       THEN /\ pc' = [pc EXCEPT ![c] = "idle"]
            /\ mobLocal' = [mobLocal EXCEPT ![c] = FALSE]
            /\ lastStep' = StepThrew("initEmbeddingModel", "tf.ready rejected")
       ELSE IF ~mobLocal[c]
       THEN /\ pc' = [pc EXCEPT ![c] = "idle"]
            /\ mobLocal' = [mobLocal EXCEPT ![c] = FALSE]
            /\ lastStep' = StepThrew("initEmbeddingModel", "MobileNet non caricato")
       ELSE /\ pc' = [pc EXCEPT ![c] = "load"]
            /\ mobLocal' = mobLocal
            /\ lastStep' = Step("initEmbeddingModel")
    /\ UNCHANGED <<tfGlobal, mobilenetGlobal, embedModel, runtimeDim>>
    /\ UNCHANGED <<cropVars, embedVars, cosVars>>

(* The warm-up of lines 22-26 and the probe of lines 46-50, on model m: the
   inference succeeds and runtimeDim becomes emb.size, or it throws before
   the assignment of line 25 / 49 (as m.infer does when m is null). *)
Probe(m, dim, ok, d) == IF ok /\ ~m.isNull THEN Dim(d) ELSE dim

(* Mutant: line 19 declares a local embedModel, the module's stays null. *)
InitLoadSettled_Shadowed(c, ok, warm, d) ==
    /\ pc[c] = "load"
    /\ pc' = [pc EXCEPT ![c] = "idle"]
    /\ mobLocal' = [mobLocal EXCEPT ![c] = FALSE]
    /\ IF ~ok
       THEN /\ lastStep' = StepThrew("initEmbeddingModel", "load rejected")
            /\ UNCHANGED <<embedModel, runtimeDim>>
       ELSE /\ embedModel' = embedModel
            /\ runtimeDim' = Probe(Model(c), runtimeDim, warm, d)
            /\ lastStep' = StepProbe("initEmbeddingModel", IF warm THEN "ok" ELSE "failed")
    /\ UNCHANGED <<tfGlobal, mobilenetGlobal>>
    /\ UNCHANGED <<cropVars, embedVars, cosVars>>

(* Lines 19-31: the load settles; embedModel is assigned; the warm-up. *)
InitLoadSettled(c, ok, warm, d) ==
    /\ pc[c] = "load"
    /\ pc' = [pc EXCEPT ![c] = "idle"]
    /\ mobLocal' = [mobLocal EXCEPT ![c] = FALSE]
    /\ IF ~ok
       THEN /\ lastStep' = StepThrew("initEmbeddingModel", "load rejected")
            /\ UNCHANGED <<embedModel, runtimeDim>>
       ELSE /\ embedModel' = Model(c)
            /\ runtimeDim' = Probe(Model(c), runtimeDim, warm, d)
            /\ lastStep' = StepProbe("initEmbeddingModel", IF warm THEN "ok" ELSE "failed")
    /\ UNCHANGED <<tfGlobal, mobilenetGlobal>>
    /\ UNCHANGED <<cropVars, embedVars, cosVars>>

(* hasEmbedModel, lines 33-35; getRuntimeDim, lines 37-39. *)
hasEmbedModel == ~embedModel.isNull
getRuntimeDim == runtimeDim

(* Mutant: no "runtimeDim == null" test (line 45), every call probes. *)
ensureRuntimeDim_AlwaysProbe(ok, d) ==
    IF ~tfGlobal \/ embedModel.isNull
    THEN [dim |-> runtimeDim, step |-> Step("ensureRuntimeDim")]
    ELSE [dim |-> Probe(embedModel, runtimeDim, ok, d),
          step |-> StepProbe("ensureRuntimeDim", IF ok THEN "ok" ELSE "failed")]

(* ensureRuntimeDim, lines 41-55.  Every exception is caught (line 52). *)
ensureRuntimeDim(ok, d) ==
    IF ~tfGlobal \/ embedModel.isNull
    THEN [dim |-> runtimeDim, step |-> Step("ensureRuntimeDim")]
    ELSE IF runtimeDim.isNull
    THEN [dim |-> Probe(embedModel, runtimeDim, ok, d),
          step |-> StepProbe("ensureRuntimeDim", IF ok THEN "ok" ELSE "failed")]
    ELSE [dim |-> runtimeDim, step |-> Step("ensureRuntimeDim")]

EnsureRuntimeDim(ok, d) ==
    /\ runtimeDim' = ensureRuntimeDim(ok, d).dim
    /\ lastStep' = ensureRuntimeDim(ok, d).step
    /\ UNCHANGED <<tfGlobal, mobilenetGlobal, embedModel, pc, mobLocal>>
    /\ UNCHANGED <<cropVars, embedVars, cosVars>>

Init == ModelStart /\ CropStart /\ EmbedStart /\ CosStart

Next ==
    \/ TfScriptLoaded
    \/ MobilenetScriptLoaded
    \/ \E c \in Calls : InitEnter(c)
    \/ \E c \in Calls : InitBackendSettled(c)
    \/ \E c \in Calls, ok \in BOOLEAN : InitReadySettled(c, ok)
    \/ \E c \in Calls, ok \in BOOLEAN, warm \in BOOLEAN, d \in Dims :
           InitLoadSettled(c, ok, warm, d)
    \/ \E ok \in BOOLEAN, d \in Dims : EnsureRuntimeDim(ok, d)

Spec == Init /\ [][Next]_vars

(***************************************************************************)
(* cosineSim, embedding.js:87-92.  The loop is the for loop of line 90.    *)
(***************************************************************************)
(* Mutants of the loop: "dot = ..." for "dot += ...", and vecA[i] * vecA[i]. *)
RECURSIVE CosLoop_Assign(_, _, _, _)
CosLoop_Assign(a, b, i, dot) ==
    IF i > Len(a) THEN dot
    ELSE CosLoop_Assign(a, b, i + 1, RatMul(a[i], b[i]))

RECURSIVE CosLoop_SelfProduct(_, _, _, _)
CosLoop_SelfProduct(a, b, i, dot) ==
    IF i > Len(a) THEN dot
    ELSE CosLoop_SelfProduct(a, b, i + 1, RatAdd(dot, RatMul(a[i], a[i])))

RECURSIVE CosLoop(_, _, _, _)
CosLoop(a, b, i, dot) ==
    IF i > Len(a) THEN dot
    ELSE CosLoop(a, b, i + 1, RatAdd(dot, RatMul(a[i], b[i])))

(* Mutants of cosineSim: no length check, the dot product taken over the
   common prefix; and a loop that starts at the second element. *)
cosineSim_Truncating(a, b) ==
    IF a.nil \/ b.nil
    THEN Returned(RatMinusOne)
    ELSE LET n == IF Len(a.data) < Len(b.data) THEN Len(a.data) ELSE Len(b.data)
         IN  Returned(CosLoop(SubSeq(a.data, 1, n), SubSeq(b.data, 1, n), 1, RatZero))

cosineSim_SkipFirst(a, b) ==
    IF a.nil \/ b.nil \/ Len(a.data) # Len(b.data)
    THEN Returned(RatMinusOne)
    ELSE Returned(CosLoop(a.data, b.data, 2, RatZero))

cosineSim(a, b) ==
    IF a.nil \/ b.nil \/ Len(a.data) # Len(b.data)
    THEN Returned(RatMinusOne)
    ELSE Returned(CosLoop(a.data, b.data, 1, RatZero))

(* The values the vectors' elements are drawn from. *)
CosElems == {R(0, 1), R(1, 1), R(-1, 1), R(3, 5), R(4, 5), R(-3, 5)}
CosVectors ==
    {NullVec} \cup {Arr(s) : s \in UNION {[1..n -> CosElems] : n \in 0..MaxLen}}

InitCos ==
    /\ ModelStart /\ CropStart /\ EmbedStart
    /\ vecA \in CosVectors
    /\ vecB \in CosVectors
    /\ resAB = NotCalled
    /\ resBA = NotCalled

CosineSimAB ==
    /\ ~resAB.called
    /\ resAB' = cosineSim(vecA, vecB)
    /\ UNCHANGED <<vecA, vecB, resBA>>
    /\ UNCHANGED <<modelVars, cropVars, embedVars>>

CosineSimBA ==
    /\ ~resBA.called
    /\ resBA' = cosineSim(vecB, vecA)
    /\ UNCHANGED <<vecA, vecB, resAB>>
    /\ UNCHANGED <<modelVars, cropVars, embedVars>>

NextCos == CosineSimAB \/ CosineSimBA

SpecCos == InitCos /\ [][NextCos]_vars

(***************************************************************************)
(* cropToCanvasFromVideo, embedding.js:57-67.                              *)
(***************************************************************************)
Min(a, b) == IF a < b THEN a ELSE b
Max(a, b) == IF a > b THEN a ELSE b

(* Line 57. *)
clamp(v, min, max) == Max(min, Min(max, v))

(* Lines 60-65: the arguments of drawImage. *)
cropToCanvasFromVideo(b, w, h) ==
    LET vx == clamp(b.originX, 0, w)
        vy == clamp(b.originY, 0, h)
        vw == clamp(b.width, 1, w - vx)
        vh == clamp(b.height, 1, h - vy)
    IN  [called |-> TRUE, sx |-> vx, sy |-> vy, sw |-> vw, sh |-> vh,
         dx |-> 0, dy |-> 0, dw |-> CROP_SIZE, dh |-> CROP_SIZE]

(* Detection boxes, in pixels, inside the frame and across its edges. *)
Coords == -1 .. MaxVideo + 1
Boxes == [originX : Coords, originY : Coords, width : Coords, height : Coords]

InitCrop ==
    /\ ModelStart /\ EmbedStart /\ CosStart
    /\ videoWidth \in 0..MaxVideo
    /\ videoHeight \in 0..MaxVideo
    /\ box = NoBox
    /\ drawn = NoDraw

CropToCanvasFromVideo(b) ==
    /\ ~drawn.called
    /\ box' = b
    /\ drawn' = cropToCanvasFromVideo(b, videoWidth, videoHeight)
    /\ UNCHANGED <<videoWidth, videoHeight>>
    /\ UNCHANGED <<modelVars, embedVars, cosVars>>

NextCrop == \E b \in Boxes : CropToCanvasFromVideo(b)

SpecCrop == InitCrop /\ [][NextCrop]_vars

(***************************************************************************)
(* embedFromCanvas, embedding.js:69-85.                                    *)
(***************************************************************************)
(* Mutant: "sum = ..." for "sum += ...". *)
RECURSIVE SumLoop_Assign(_, _, _)
SumLoop_Assign(o, i, acc) ==
    IF i > Len(o) THEN acc
    ELSE SumLoop_Assign(o, i + 1, NumSquare(o[i]))

(* Line 79: the sum of the squares. *)
RECURSIVE SumLoop(_, _, _)
SumLoop(o, i, acc) ==
    IF i > Len(o) THEN acc
    ELSE SumLoop(o, i + 1, RatAdd(acc, NumSquare(o[i])))

(* Mutants: 1 / sum for 1 / Math.sqrt(sum); "sum >= 0" for "sum > 0". *)
InvOf_NoSqrt(s) == IF s.num > 0 THEN Q(s.den, s.num) ELSE NumOne
InvOf_GeqZero(s) == IF s.num >= 0 THEN RecipSqrt(s) ELSE NumOne

(* Line 80. *)
InvOf(s) == IF s.num > 0 THEN RecipSqrt(s) ELSE NumOne

(* Line 82: the in-place scaling. *)
RECURSIVE ScaleLoop(_, _, _)
ScaleLoop(o, i, k) ==
    IF i > Len(o) THEN o
    ELSE ScaleLoop([o EXCEPT ![i] = NumMul(o[i], k)], i + 1, k)

(* Lines 78-84, on the Float32Array of line 76. *)
Normalize(o) ==
    LET s == SumLoop(o, 1, RatZero)
        k == InvOf(s)
    IN  [sum |-> s, inv |-> k,
         out |-> IF k # NumOne THEN ScaleLoop(o, 1, k) ELSE o]

(* The values the inferred features are drawn from. *)
FeatElems ==
    {Q(0, 1), Q(1, 1), Q(-1, 1), Q(2, 1), Q(3, 5), Q(4, 5), Q(-3, 5), Sqrt(1, 2)}
FeatVectors == UNION {[1..n -> FeatElems] : n \in 0..MaxDim}

(* The life cycle's states that matter to line 71: tf missing, tf without a
   model, tf with a model (a model is never loaded without tf: ModelNeedsTf
   under Spec). *)
InitEmbed ==
    /\ tfGlobal \in BOOLEAN
    /\ mobilenetGlobal = tfGlobal
    /\ embedModel \in {NullModel} \cup (IF tfGlobal THEN {Model(1)} ELSE {})
    /\ runtimeDim = NullDim
    /\ pc = [c \in Calls |-> "idle"]
    /\ mobLocal = [c \in Calls |-> FALSE]
    /\ lastStep = NoStep
    /\ CropStart /\ EmbedStart /\ CosStart

(* Line 71 throws, or lines 73-84 with v the data of line 76. *)
EmbedFromCanvas(v) ==
    /\ ~embRes.called
    /\ IF ~tfGlobal \/ embedModel.isNull
       THEN /\ embRes' = Thrown("Embedding model non disponibile")
            /\ UNCHANGED <<feat, out, sum, inv>>
       ELSE /\ feat' = v
            /\ sum' = Normalize(v).sum
            /\ inv' = Normalize(v).inv
            /\ out' = Normalize(v).out
            /\ embRes' = Returned(RatZero)
    /\ UNCHANGED <<modelVars, cropVars, cosVars>>

NextEmbed == \E v \in FeatVectors : EmbedFromCanvas(v)

SpecEmbed == InitEmbed /\ [][NextEmbed]_vars

(***************************************************************************)
(* The properties.                                                         *)
(***************************************************************************)
(* The sum of f over the finite set S, and with it the dot product and the
   squared L2 norm as the mathematics defines them. *)
RECURSIVE SumRat(_, _)
SumRat(f, S) ==
    IF S = {} THEN RatZero
    ELSE LET x == CHOOSE y \in S : TRUE
         IN  RatAdd(f[x], SumRat(f, S \ {x}))

DotProduct(a, b) == SumRat([i \in 1..Len(a) |-> RatMul(a[i], b[i])], 1..Len(a))
NormSquared(v) == SumRat([i \in 1..Len(v) |-> v[i].sq], 1..Len(v))
IsUnit(v) == ~v.nil /\ DotProduct(v.data, v.data) = RatOne
LengthsDiffer == ~vecA.nil /\ ~vecB.nil /\ Len(vecA.data) # Len(vecB.data)
LengthsEqual == ~vecA.nil /\ ~vecB.nil /\ Len(vecA.data) = Len(vecB.data)
EmbedReturned == embRes.called /\ ~embRes.threw

(* C1, as the specification states it: for vectors of different lengths
   cosineSim reports the error DimensionMismatch to its caller and returns
   no numeric score. *)
C1_MismatchIsError ==
    (resAB.called /\ LengthsDiffer)
        => (resAB.threw /\ resAB.error = "DimensionMismatch")

(* C1, amended: for vectors of different lengths cosineSim throws nothing
   and returns the number -1, whatever the elements are: no dot product of
   a truncated or padded pair. *)
C1_MismatchReturnsMinusOne ==
    (resAB.called /\ LengthsDiffer) => resAB = Returned(RatMinusOne)

C1_Witness ==
    /\ resAB.called /\ LengthsDiffer
    /\ Len(vecA.data) = 1 /\ Len(vecB.data) = 2
    /\ vecA.data[1] = R(3, 5) /\ vecB.data[1] = R(4, 5)
    /\ resAB.value = RatMinusOne

(* C2: for non-null vectors of equal length n, n = 0 included, cosineSim
   returns the dot product, the sum of a[i] * b[i]. *)
C2_DotProduct ==
    (resAB.called /\ LengthsEqual)
        => resAB = Returned(DotProduct(vecA.data, vecB.data))

C2_Witness ==
    /\ resAB.called /\ LengthsEqual
    /\ vecA.data = <<R(3, 5), R(1, 1)>> /\ vecB.data = <<R(4, 5), R(3, 5)>>
    /\ resAB.value = R(27, 25)

(* C5: for vectors of equal length, cosineSim(a, b) = cosineSim(b, a). *)
C5_Symmetric ==
    (resAB.called /\ resBA.called /\ LengthsEqual) => resAB = resBA

C5_Witness ==
    /\ resAB.called /\ resBA.called /\ LengthsEqual
    /\ vecA.data = <<R(3, 5), R(-1, 1)>> /\ vecB.data = <<R(1, 1), R(4, 5)>>
    /\ resBA.value = R(-1, 5)

(* C6: for unit vectors a, b of equal length, cosineSim(a, b) lies in
   [-1, 1], and cosineSim(a, a) = 1. *)
C6_UnitBounded ==
    (resAB.called /\ IsUnit(vecA) /\ IsUnit(vecB) /\ LengthsEqual)
        => /\ ~resAB.threw
           /\ RatLeq(RatMinusOne, resAB.value)
           /\ RatLeq(resAB.value, RatOne)
           /\ (vecA = vecB => resAB.value = RatOne)

C6_Witness ==
    /\ resAB.called /\ IsUnit(vecA) /\ IsUnit(vecB)
    /\ vecA = vecB /\ vecA.data = <<R(-3, 5), R(4, 5)>>
    /\ resAB.value = RatOne

(* C3: for inferred features v of length D >= 1 with a non-zero norm, the
   array embedFromCanvas returns has length D, its i-th element is
   v[i] * (1 / sqrt(sum of v[j]^2)), and its L2 norm is 1. *)
C3_Normalized ==
    (EmbedReturned /\ Len(feat) >= 1 /\ NormSquared(feat) # RatZero)
        => /\ Len(out) = Len(feat)
           /\ \A i \in 1..Len(feat) :
                  out[i] = NumMul(feat[i], RecipSqrt(NormSquared(feat)))
           /\ NormSquared(out) = RatOne

C3_Witness ==
    /\ EmbedReturned
    /\ feat = <<Q(1, 1), Q(-1, 1), Sqrt(1, 2)>>
    /\ out = <<Sqrt(2, 5), Fin(-1, R(2, 5)), Sqrt(1, 5)>>

(* C4: when every inferred feature is zero, embedFromCanvas returns the
   array unchanged, takes no 1 / sqrt(0) (inv is 1) and throws nothing. *)
C4_ZeroUnchanged ==
    (embRes.called /\ tfGlobal /\ ~embedModel.isNull /\ NormSquared(feat) = RatZero)
        => /\ ~embRes.threw
           /\ inv = NumOne
           /\ out = feat

C4_Witness ==
    /\ EmbedReturned
    /\ feat = <<NumZero, NumZero>>
    /\ out = feat /\ sum = RatZero

(* C7: normalising a vector of unit length returns that vector, of norm 1;
   so what embedFromCanvas returns for a non-zero vector is a fixed point
   of its normalisation. *)
C7_Idempotent ==
    /\ (EmbedReturned /\ NormSquared(feat) = RatOne)
           => (out = feat /\ NormSquared(out) = RatOne)
    /\ (EmbedReturned /\ NormSquared(feat) # RatZero)
           => Normalize(out).out = out

C7_Witness ==
    /\ EmbedReturned
    /\ feat = <<Q(3, 5), NumZero, Q(4, 5)>>
    /\ out = feat

(* C8: in every reachable state, if getRuntimeDim() is not null then
   hasEmbedModel() is true. *)
C8_DimNeedsModel == ~getRuntimeDim.isNull => hasEmbedModel

C8_Witness ==
    /\ ~getRuntimeDim.isNull /\ hasEmbedModel
    /\ lastStep = StepProbe("ensureRuntimeDim", "ok")

(* C9: with videoWidth >= 1 and videoHeight >= 1 the source rectangle that
   cropToCanvasFromVideo passes to drawImage lies inside the video frame. *)
C9_SourceInsideFrame ==
    (drawn.called /\ videoWidth >= 1 /\ videoHeight >= 1)
        => /\ 0 <= drawn.sx /\ 0 <= drawn.sy
           /\ drawn.sw >= 1 /\ drawn.sh >= 1
           /\ drawn.sx + drawn.sw <= videoWidth
           /\ drawn.sy + drawn.sh <= videoHeight

(* C10: a step of ensureRuntimeDim throws nothing and changes nothing but
   runtimeDim; it leaves runtimeDim alone when tf or the model is missing
   or runtimeDim is set, sets it only from null, and leaves it null when
   the probe fails. *)
C10_EnsureFrame ==
    [][lastStep'.op = "ensureRuntimeDim"
        => /\ ~lastStep'.threw
           /\ UNCHANGED <<tfGlobal, mobilenetGlobal, embedModel, pc, mobLocal>>
           /\ UNCHANGED <<cropVars, embedVars, cosVars>>
           /\ (~tfGlobal \/ embedModel.isNull \/ ~runtimeDim.isNull)
                  => runtimeDim' = runtimeDim
           /\ runtimeDim' # runtimeDim => runtimeDim.isNull
           /\ lastStep'.probe = "failed" => (runtimeDim.isNull /\ runtimeDim'.isNull)
      ]_vars

C10_Witness ==
    /\ lastStep = StepProbe("ensureRuntimeDim", "failed")
    /\ hasEmbedModel /\ runtimeDim.isNull

(* tf is defined whenever a model is loaded: the states InitEmbed starts in. *)
ModelNeedsTf == hasEmbedModel => tfGlobal

=============================================================================
